---- MODULE Spec2Model ----
(***************************************************************************)
(* A model of MP4_Converter.py: the folder-level batch (process_folder),   *)
(* the per-file conversion (convert_to_mp4) with its progress thread       *)
(* (hourglass_animation), the track selection functions and the ffmpeg     *)
(* command builder.                                                        *)
(*                                                                         *)
(* Text is modelled as a sequence of one-character strings, so that        *)
(* endswith, substring search, splitext, str() and the natural sort key    *)
(* are computed on characters.  An ffmpeg argument is such a sequence too  *)
(* (flags and format strings are kept as one piece each).                  *)
(***************************************************************************)
EXTENDS Integers, Sequences, FiniteSets, TLC

\* ------------------------------------------------------------------------
\* Bounds of the model
\* ------------------------------------------------------------------------
MaxFiles == 2
MaxStreams == 3

\* ------------------------------------------------------------------------
\* Text helpers
\* ------------------------------------------------------------------------
Range(s) == {s[i] : i \in 1..Len(s)}

EndsWith(s, suf) ==
    /\ Len(suf) <= Len(s)
    /\ SubSeq(s, Len(s) - Len(suf) + 1, Len(s)) = suf

Contains(s, sub) ==
    \E i \in 1..(Len(s) + 1) :
        /\ i + Len(sub) - 1 <= Len(s)
        /\ SubSeq(s, i, i + Len(sub) - 1) = sub

DigitChars == <<"0", "1", "2", "3", "4", "5", "6", "7", "8", "9">>

IsDigit(c) == c \in Range(DigitChars)

DigitVal(c) == (CHOOSE i \in 1..10 : DigitChars[i] = c) - 1

\* str(n) for a non-negative integer
RECURSIVE Str(_)
Str(n) ==
    IF n < 10 THEN <<DigitChars[n + 1]>>
    ELSE Str(n \div 10) \o <<DigitChars[(n % 10) + 1]>>

\* int(text) for a run of digits
RECURSIVE IntOf(_)
IntOf(ds) ==
    IF ds = <<>> THEN 0
    ELSE 10 * IntOf(SubSeq(ds, 1, Len(ds) - 1)) + DigitVal(ds[Len(ds)])

\* Code points of the characters that occur in the modelled file names
Ord(c) ==
    CASE c = "." -> 46
      [] IsDigit(c) -> 48 + DigitVal(c)
      [] c = "E" -> 69
      [] c = "M" -> 77
      [] c = "S" -> 83
      [] c = "a" -> 97
      [] c = "e" -> 101
      [] c = "i" -> 105
      [] c = "k" -> 107
      [] c = "l" -> 108
      [] c = "m" -> 109
      [] c = "p" -> 112
      [] c = "s" -> 115
      [] c = "t" -> 116
      [] c = "v" -> 118
      [] c = "x" -> 120

\* Python's str < str : lexicographic on code points
RECURSIVE StrLess(_, _)
StrLess(a, b) ==
    IF b = <<>> THEN FALSE
    ELSE IF a = <<>> THEN TRUE
    ELSE IF Ord(a[1]) /= Ord(b[1]) THEN Ord(a[1]) < Ord(b[1])
    ELSE StrLess(Tail(a), Tail(b))

\* ------------------------------------------------------------------------
\* natsorted (natsort, default algorithm): the key of a name is the tuple
\* of its text chunks and unsigned integer chunks, alternating and starting
\* with a (possibly empty) text chunk.
\* ------------------------------------------------------------------------
RECURSIVE TakeRun(_, _)
TakeRun(s, digits) ==
    IF s = <<>> \/ IsDigit(s[1]) /= digits THEN <<>>
    ELSE <<s[1]>> \o TakeRun(Tail(s), digits)

RECURSIVE NatChunks(_, _)
NatChunks(s, digits) ==
    IF s = <<>> THEN <<>>
    ELSE LET run == TakeRun(s, digits)
             rest == SubSeq(s, Len(run) + 1, Len(s))
         IN <<IF digits THEN [num |-> IntOf(run)] ELSE [txt |-> run]>>
                \o NatChunks(rest, ~digits)

NatKey(name) == NatChunks(name, FALSE)

ChunkLess(a, b) ==
    IF "num" \in DOMAIN a THEN a.num < b.num ELSE StrLess(a.txt, b.txt)

\* Python's tuple < tuple on two keys
RECURSIVE KeyLess(_, _)
KeyLess(k1, k2) ==
    IF k2 = <<>> THEN FALSE
    ELSE IF k1 = <<>> THEN TRUE
    ELSE IF k1[1] /= k2[1] THEN ChunkLess(k1[1], k2[1])
    ELSE KeyLess(Tail(k1), Tail(k2))

NatLess(a, b) == KeyLess(NatKey(a), NatKey(b))

\* The mutant of natsorted: plain sorted(), code-point order
RECURSIVE natsorted_ascii(_)
natsorted_ascii(S) ==
    IF S = {} THEN <<>>
    ELSE LET m == CHOOSE x \in S : \A y \in S \ {x} : ~StrLess(y, x)
         IN <<m>> \o natsorted_ascii(S \ {m})

RECURSIVE natsorted(_)
natsorted(S) ==
    IF S = {} THEN <<>>
    ELSE LET m == CHOOSE x \in S : \A y \in S \ {x} : ~NatLess(y, x)
         IN <<m>> \o natsorted(S \ {m})

\* ------------------------------------------------------------------------
\* Probed streams.  A stream is a record with the fields ffprobe prints:
\* index, codec_type, codec_name and the language tag (NoTag when the
\* stream has no tags or no language tag).
\* ------------------------------------------------------------------------
NoTag == "<absent>"

VideoCodecs == {"hevc", "h264", "av1", "AV1"}
AudioLanguages == {"eng", "und", "fre", NoTag}
SubtitleCodecs == {"subrip", "hdmv_pgs_subtitle"}
SubtitleLanguages == {"eng", "fre", NoTag}

StreamKinds ==
    [codec_type : {"video"}, codec_name : VideoCodecs, language : {NoTag}]
    \cup [codec_type : {"audio"}, codec_name : {"ac3"}, language : AudioLanguages]
    \cup [codec_type : {"subtitle"}, codec_name : SubtitleCodecs,
          language : SubtitleLanguages]

\* The container's streams: ffprobe numbers them 0, 1, 2, ... in order
Indexed(kinds) ==
    [i \in 1..Len(kinds) |->
        [index |-> i - 1, codec_type |-> kinds[i].codec_type,
         codec_name |-> kinds[i].codec_name, language |-> kinds[i].language]]

AllMedia == {Indexed(k) : k \in UNION {[1..n -> StreamKinds] : n \in 0..MaxStreams}}

RECURSIVE SelectStreams(_, _)
SelectStreams(streams, type) ==
    IF streams = <<>> THEN <<>>
    ELSE (IF streams[1].codec_type = type THEN <<streams[1]>> ELSE <<>>)
            \o SelectStreams(Tail(streams), type)

\* probe_streams: -select_streams a / s keeps the streams of that type
probe_streams(media, select_streams) ==
    CASE select_streams = "a" -> SelectStreams(media, "audio")
      [] select_streams = "s" -> SelectStreams(media, "subtitle")
      [] OTHER -> media

\* s.get("tags", {}).get("language", "und")
LanguageOf(s) == IF s.language = NoTag THEN "und" ELSE s.language

\* The mutant of Lower: the name is taken as ffprobe prints it
Lower_asis(name) == name

\* str.lower() on a codec name
Lower(name) ==
    CASE name = "AV1" -> "av1"
      [] name = "HEVC" -> "hevc"
      [] OTHER -> name

\* The mutant of get_english_audio_indices: a stream without a language
\* tag is not taken
RECURSIVE get_english_audio_indices_notag(_)
get_english_audio_indices_notag(audio_streams) ==
    IF audio_streams = <<>> THEN <<>>
    ELSE (IF audio_streams[1].language \in {"eng", "und"}
          THEN <<Str(audio_streams[1].index)>> ELSE <<>>)
            \o get_english_audio_indices_notag(Tail(audio_streams))

RECURSIVE get_english_audio_indices(_)
get_english_audio_indices(audio_streams) ==
    IF audio_streams = <<>> THEN <<>>
    ELSE (IF LanguageOf(audio_streams[1]) \in {"eng", "und"}
          THEN <<Str(audio_streams[1].index)>> ELSE <<>>)
            \o get_english_audio_indices(Tail(audio_streams))

NoCodec == "<None>"

RECURSIVE get_video_codec(_)
get_video_codec(video_streams) ==
    IF video_streams = <<>> THEN NoCodec
    ELSE IF video_streams[1].codec_type = "video"
         THEN Lower(video_streams[1].codec_name)
         ELSE get_video_codec(Tail(video_streams))

valid_codecs == {"subrip", "ass", "ssa", "mov_text"}

RECURSIVE get_subtitle_streams(_)
get_subtitle_streams(subtitle_streams) ==
    IF subtitle_streams = <<>> THEN <<>>
    ELSE LET s == subtitle_streams[1]
         IN (IF s.codec_name \in valid_codecs /\ LanguageOf(s) \in {"eng", "und"}
             THEN <<[index |-> Str(s.index), codec |-> s.codec_name,
                     language |-> LanguageOf(s)]>>
             ELSE <<>>)
                \o get_subtitle_streams(Tail(subtitle_streams))

\* ------------------------------------------------------------------------
\* build_ffmpeg_cmd.  An argument is a sequence of pieces; the pieces of a
\* format string are concatenated (f"0:{idx}" is <<"0:">> \o idx).
\* ------------------------------------------------------------------------
Arg(a) == <<a>>

RECURSIVE AudioArgs(_)
AudioArgs(audio_indices) ==
    IF audio_indices = <<>> THEN <<>>
    ELSE <<Arg("-map"), <<"0:">> \o audio_indices[1],
           Arg("-metadata:s:a:0"), Arg("language=eng")>>
            \o AudioArgs(Tail(audio_indices))

\* The mutant of SubtitleArgs: the last valid subtitle is mapped
SubtitleArgs_last(subtitle_streams) ==
    IF subtitle_streams = <<>> THEN <<>>
    ELSE LET sub == subtitle_streams[Len(subtitle_streams)]
         IN <<Arg("-map"), <<"0:">> \o sub.index, Arg("-c:s"), Arg("mov_text"),
              Arg("-metadata:s:s:0"), <<"language=", sub.language>>>>

SubtitleArgs(subtitle_streams) ==
    IF subtitle_streams = <<>> THEN <<>>
    ELSE LET sub == subtitle_streams[1]
         IN <<Arg("-map"), <<"0:">> \o sub.index, Arg("-c:s"), Arg("mov_text"),
              Arg("-metadata:s:s:0"), <<"language=", sub.language>>>>

EncodeTemplate(input_file) ==
    <<Arg("ffmpeg"), Arg("-i"), input_file, Arg("-y"),
      Arg("-c:v"), Arg("libx265"), Arg("-x265-params"), Arg("log-level=0"),
      Arg("-preset"), Arg("fast"), Arg("-crf"), Arg("23"),
      Arg("-c:a"), Arg("aac"), Arg("-b:a"), Arg("192k"),
      Arg("-channel_layout"), Arg("5.1"),
      Arg("-map"), Arg("0:v:0"), Arg("-map_metadata"), Arg("-1"),
      Arg("-tag:v"), Arg("hvc1"), Arg("-movflags"), Arg("+faststart"),
      Arg("-loglevel"), Arg("quiet")>>

\* The mutant of RemuxTemplate: the hvc1 tag is set whatever the codec
RemuxTemplate_tagged(input_file, video_codec) ==
    <<Arg("ffmpeg"), Arg("-i"), input_file, Arg("-y"),
      Arg("-c:v"), Arg("copy"), Arg("-c:a"), Arg("copy"),
      Arg("-map"), Arg("0:v:0"), Arg("-map_metadata"), Arg("-1"),
      Arg("-movflags"), Arg("+faststart"), Arg("-loglevel"), Arg("quiet"),
      Arg("-tag:v"), Arg("hvc1")>>

\* The mutant of RemuxTemplate: the audio is re-encoded to AAC
RemuxTemplate_aac(input_file, video_codec) ==
    <<Arg("ffmpeg"), Arg("-i"), input_file, Arg("-y"),
      Arg("-c:v"), Arg("copy"), Arg("-c:a"), Arg("aac"),
      Arg("-map"), Arg("0:v:0"), Arg("-map_metadata"), Arg("-1"),
      Arg("-movflags"), Arg("+faststart"), Arg("-loglevel"), Arg("quiet")>>
    \o (IF video_codec = "hevc" THEN <<Arg("-tag:v"), Arg("hvc1")>> ELSE <<>>)

RemuxTemplate(input_file, video_codec) ==
    <<Arg("ffmpeg"), Arg("-i"), input_file, Arg("-y"),
      Arg("-c:v"), Arg("copy"), Arg("-c:a"), Arg("copy"),
      Arg("-map"), Arg("0:v:0"), Arg("-map_metadata"), Arg("-1"),
      Arg("-movflags"), Arg("+faststart"), Arg("-loglevel"), Arg("quiet")>>
    \o (IF video_codec = "hevc" THEN <<Arg("-tag:v"), Arg("hvc1")>> ELSE <<>>)

build_ffmpeg_cmd(input_file, temp_file, mode, video_codec, audio_indices, subtitle_streams) ==
    (IF mode = "encode" THEN EncodeTemplate(input_file)
     ELSE RemuxTemplate(input_file, video_codec))
    \o AudioArgs(audio_indices)
    \o SubtitleArgs(subtitle_streams)
    \o <<temp_file>>

\* ------------------------------------------------------------------------
\* Paths and file names
\* ------------------------------------------------------------------------
Txt_E2_mkv == <<"E", "2", ".", "m", "k", "v">>
Txt_E10_mkv == <<"E", "1", "0", ".", "m", "k", "v">>
Txt_M_avi == <<"M", ".", "a", "v", "i">>
Txt_M_mp4 == <<"M", ".", "m", "p", "4">>
Txt_Sample_mkv == <<"S", "a", "m", "p", "l", "e", ".", "m", "k", "v">>
Txt_a_txt == <<"a", ".", "t", "x", "t">>

\* The entries an input directory may hold
Names == {Txt_E2_mkv, Txt_E10_mkv, Txt_M_avi, Txt_M_mp4, Txt_Sample_mkv, Txt_a_txt}

words_to_ignore ==
    {<<"s", "a", "m", "p", "l", "e">>, <<"S", "A", "M", "P", "L", "E">>,
     <<"S", "a", "m", "p", "l", "e">>,
     <<".", "D", "S", "_", "S", "t", "o", "r", "e">>}

video_formats == {<<".", "m", "k", "v">>, <<".", "m", "p", "4">>, <<".", "a", "v", "i">>}

input_path == <<"in">>

\* os.path.join
Join(dir, name) == dir \o <<"/">> \o name

\* os.path.splitext(name)[0]: the name up to its last dot, the whole name
\* when it has no dot or only leading dots
SplitextRoot(name) ==
    LET dots == {i \in 1..Len(name) : name[i] = "."}
        leading == {i \in 1..Len(name) : \A j \in 1..i : name[j] = "."}
    IN IF dots \subseteq leading THEN name
       ELSE LET last == CHOOSE i \in dots : \A j \in dots : j <= i
            IN SubSeq(name, 1, last - 1)

\* The names of the temporary files: tempfile gives every call a fresh name
TempName(n) == <<"tmp", "/">> \o Str(n) \o <<".", "m", "p", "4">>

\* ------------------------------------------------------------------------
\* State
\* ------------------------------------------------------------------------
VARIABLES
    first_run,          \* "encode" or "remux"
    create_subfolders,  \* BOOLEAN
    output_path,        \* the output directory; may be the input directory
    fs,                 \* the files on disk: path -> content
    pc,                 \* the position of the primary thread
    files,              \* the filtered, sorted list of process_folder
    idx,                \* the loop index of process_folder (from 1)
    temp_output_file,   \* the temporary output of the current iteration
    nextTemp,           \* the number of temporary files allocated so far
    media,              \* the streams of the file being converted
    audio_indices,      \* locals of convert_to_mp4
    video_codec,
    valid_subtitles,
    cmd,
    animation,          \* the progress threads started: file -> "running"/"exited"
    stop_event,         \* the files whose stop_event is set
    status_line,        \* the file shown on the console status line, or <<>>
    totalRunTime,       \* the global running total, in seconds
    LOGFILE,            \* the threads that have appended to the log file
    hist                \* per attempted file: what has happened to it

args == <<first_run, create_subfolders, output_path>>
locals == <<media, audio_indices, video_codec, valid_subtitles, cmd>>
monitor == <<animation, stop_event, status_line>>
loop == <<files, idx, temp_output_file, nextTemp>>
vars == <<args, fs, pc, loop, locals, monitor, totalRunTime, LOGFILE, hist>>

\* print: the message goes to the console and is appended to the log file
print(thread) == LOGFILE' = LOGFILE \cup {thread}

Exists(path) == path \in DOMAIN fs

Put(f, path, content) ==
    [p \in DOMAIN f \cup {path} |-> IF p = path THEN content ELSE f[p]]

Delete(f, path) == [p \in DOMAIN f \ {path} |-> f[p]]

file == files[idx]
input_file_path == Join(input_path, file)
output_folder_name == SplitextRoot(file)
output_file_name == output_folder_name \o <<".", "m", "p", "4">>
output_file_dir == Join(output_path, output_folder_name)
output_file_path ==
    IF create_subfolders THEN Join(output_file_dir, output_file_name)
    ELSE Join(output_path, output_file_name)

NewHist(temp) ==
    [temp |-> temp, rejected |-> "", engine |-> "none", elapsed |-> 0,
     moved |-> FALSE, removed |-> FALSE, remove_failed |-> FALSE,
     state |-> "Running"]

Terminal(f) == f \in DOMAIN hist /\ hist[f].state \in {"Moved", "SkippedOrFailed"}

ClearLocals ==
    /\ media' = <<>>
    /\ audio_indices' = <<>>
    /\ video_codec' = NoCodec
    /\ valid_subtitles' = <<>>
    /\ cmd' = <<>>

Init ==
    /\ first_run \in {"encode", "remux"}
    /\ create_subfolders \in BOOLEAN
    /\ output_path \in {<<"in">>, <<"out">>}
    /\ \E listing \in SUBSET Names :
        /\ Cardinality(listing) <= MaxFiles
        /\ fs = [p \in {Join(input_path, n) : n \in listing} |->
                    [kind |-> "source", of |-> SubSeq(p, 3, Len(p))]]
    /\ pc = "check_folders"
    /\ files = <<>>
    /\ idx = 0
    /\ temp_output_file = <<>>
    /\ nextTemp = 0
    /\ media = <<>>
    /\ audio_indices = <<>>
    /\ video_codec = NoCodec
    /\ valid_subtitles = <<>>
    /\ cmd = <<>>
    /\ animation = <<>>
    /\ stop_event = {}
    /\ status_line = <<>>
    /\ totalRunTime = 0
    /\ LOGFILE = {}
    /\ hist = <<>>

\* ------------------------------------------------------------------------
\* process_folder: before the loop
\* ------------------------------------------------------------------------
\* os.path.isdir of the two folders; sys.exit when one is missing
CheckFolders ==
    /\ pc = "check_folders"
    /\ \E in_isdir, out_isdir \in BOOLEAN :
        pc' = IF in_isdir /\ out_isdir THEN "preflight" ELSE "exited"
    /\ print("main")
    /\ UNCHANGED <<args, fs, loop, locals, monitor, totalRunTime, hist>>

\* On macOS the process check is not made: "WIP!" is printed
PreflightDarwin ==
    /\ pc = "preflight"
    /\ pc' = "discover_wip"
    /\ UNCHANGED <<args, fs, loop, locals, monitor, totalRunTime, LOGFILE, hist>>

\* check_if_process_running("ffmpeg.exe"): one tasklist call.  When the
\* process is seen it sleeps and calls itself again; when it is not seen,
\* or the call raises (tasklist is missing, or the recursion is too deep),
\* it returns.  The position records which of the two has happened.
CheckProcess ==
    /\ pc \in {"preflight", "sleeping"}
    /\ \E outcome \in {"running", "not_running", "error"} :
        pc' = CASE outcome = "running" -> "sleeping"
                [] outcome = "not_running" -> "discover"
                [] outcome = "error" -> "discover_error"
    /\ UNCHANGED <<args, fs, loop, locals, monitor, totalRunTime, LOGFILE, hist>>

Listing == {n \in Names : Exists(Join(input_path, n))}

Wanted(f) ==
    /\ \E ext \in video_formats : EndsWith(f, ext)
    /\ ~\E w \in words_to_ignore : Contains(f, w)

RECURSIVE Filter(_)
Filter(names) ==
    IF names = <<>> THEN <<>>
    ELSE (IF Wanted(names[1]) THEN <<names[1]>> ELSE <<>>) \o Filter(Tail(names))

\* files = [f for f in natsorted(os.listdir(input_path)) if ...]
Discover ==
    /\ pc \in {"discover", "discover_wip", "discover_error"}
    /\ files' = Filter(natsorted(Listing))
    /\ idx' = 1
    /\ pc' = IF files' = <<>> THEN "done" ELSE "prepare"
    /\ UNCHANGED <<args, fs, temp_output_file, nextTemp, locals, monitor,
                   totalRunTime, LOGFILE, hist>>

\* ------------------------------------------------------------------------
\* process_folder: one iteration
\* ------------------------------------------------------------------------
\* The end of an iteration, by the end of the loop body or by continue
EndIteration(record) ==
    /\ hist' = [hist EXCEPT ![file] = record]
    /\ idx' = idx + 1
    /\ pc' = IF idx = Len(files) THEN "done" ELSE "prepare"
    /\ UNCHANGED <<files, temp_output_file, nextTemp>>

\* tempfile.NamedTemporaryFile(suffix=".mp4", delete=False): an empty file
\* with a fresh name is created and kept
PrepareOk ==
    /\ pc = "prepare"
    /\ nextTemp' = nextTemp + 1
    /\ temp_output_file' = TempName(nextTemp')
    /\ fs' = Put(fs, temp_output_file', [kind |-> "empty", of |-> <<>>])
    /\ hist' = Put(hist, file, NewHist(temp_output_file'))
    /\ pc' = "probe"
    /\ UNCHANGED <<args, files, idx, locals, monitor, totalRunTime, LOGFILE>>

\* ... or it raises (no usable temporary directory, disk full): the call
\* is outside the try of the loop body, the exception ends process_folder
PrepareRaises ==
    /\ pc = "prepare"
    /\ pc' = "crashed"
    /\ UNCHANGED <<args, fs, loop, locals, monitor, totalRunTime, LOGFILE, hist>>

\* ------------------------------------------------------------------------
\* convert_to_mp4
\* ------------------------------------------------------------------------
\* The media the batch draws the probed streams from
BatchKinds ==
    {<<[codec_type |-> "video", codec_name |-> "hevc", language |-> NoTag],
       [codec_type |-> "audio", codec_name |-> "ac3", language |-> "eng"],
       [codec_type |-> "subtitle", codec_name |-> "subrip", language |-> "eng"]>>,
     <<[codec_type |-> "video", codec_name |-> "h264", language |-> NoTag],
       [codec_type |-> "audio", codec_name |-> "ac3", language |-> "fre"]>>,
     <<[codec_type |-> "video", codec_name |-> "av1", language |-> NoTag],
       [codec_type |-> "audio", codec_name |-> "ac3", language |-> NoTag]>>}

BatchMedia == {Indexed(k) : k \in BatchKinds}

\* The three probe_streams calls return the streams of the file
ProbeOk ==
    /\ pc = "probe"
    /\ media' \in BatchMedia
    /\ pc' = "select"
    /\ UNCHANGED <<args, fs, loop, audio_indices, video_codec, valid_subtitles,
                   cmd, monitor, totalRunTime, LOGFILE, hist>>

\* ... or one of them raises (ffprobe exits non-zero, unparseable output):
\* caught in convert_to_mp4, which returns False
ProbeRaises ==
    /\ pc = "probe"
    /\ hist' = [hist EXCEPT ![file].rejected = "ProbeError"]
    /\ pc' = "convert_false"
    /\ UNCHANGED <<args, fs, loop, locals, monitor, totalRunTime, LOGFILE>>

\* The mutant of Rejection: AV1 is given up in both modes
Rejection_anymode(mode, indices, codec) ==
    IF indices = <<>> THEN "NoQualifyingAudio"
    ELSE IF codec = "av1" THEN "UnsupportedRemuxCodec"
    ELSE ""

\* The reason for which convert_to_mp4 gives a file up after the probes
Rejection(mode, indices, codec) ==
    IF indices = <<>> THEN "NoQualifyingAudio"
    ELSE IF mode = "remux" /\ codec = "av1" THEN "UnsupportedRemuxCodec"
    ELSE ""

\* The selection, the two early returns and build_ffmpeg_cmd
SelectTracks ==
    /\ pc = "select"
    /\ audio_indices' = get_english_audio_indices(probe_streams(media, "a"))
    /\ video_codec' = get_video_codec(probe_streams(media, "all"))
    /\ valid_subtitles' = get_subtitle_streams(probe_streams(media, "s"))
    /\ LET why == Rejection(first_run, audio_indices', video_codec')
       IN /\ hist' = [hist EXCEPT ![file].rejected = why]
          /\ IF why /= ""
             THEN /\ cmd' = <<>>
                  /\ pc' = "convert_false"
             ELSE /\ cmd' = build_ffmpeg_cmd(input_file_path, temp_output_file,
                                first_run, video_codec', audio_indices',
                                valid_subtitles')
                  /\ pc' = "start"
    /\ UNCHANGED <<args, fs, loop, media, monitor, totalRunTime, LOGFILE>>

\* threading.Thread(target=hourglass_animation, ...).start()
StartMonitor ==
    /\ pc = "start"
    /\ animation' = Put(animation, file, "running")
    /\ hist' = [hist EXCEPT ![file].engine = "started"]
    /\ pc' = "engine"
    /\ UNCHANGED <<args, fs, loop, locals, stop_event, status_line, totalRunTime, LOGFILE>>

\* subprocess.run(cmd, check=True) returns: ffmpeg has written the output to
\* the temporary file; then stop_event.set()
EngineSucceeds ==
    /\ pc = "engine"
    /\ fs' = Put(fs, temp_output_file, [kind |-> "converted", of |-> file])
    /\ stop_event' = stop_event \cup {file}
    /\ hist' = [hist EXCEPT ![file].engine = "ok"]
    /\ pc' = "join"
    /\ UNCHANGED <<args, loop, locals, animation, status_line, totalRunTime, LOGFILE>>

\* ... or it raises: CalledProcessError on a non-zero exit, or another
\* exception (ffmpeg not found).  Both handlers print and return False.
\* The temporary file holds whatever ffmpeg has written of it.
EngineRaises ==
    /\ pc = "engine"
    /\ fs' = Put(fs, temp_output_file, [kind |-> "partial", of |-> <<>>])
    /\ hist' = [hist EXCEPT ![file].engine = "failed"]
    /\ pc' = "convert_false"
    /\ UNCHANGED <<args, loop, locals, monitor, totalRunTime, LOGFILE>>

\* The elapsed times of an engine run, in seconds
Durations == {90, 3600}

\* The mutant of show_time: only runs of an hour or more are added
show_time_hoursonly(seconds) ==
    IF seconds \div 3600 > 0 THEN totalRunTime + seconds ELSE totalRunTime

\* show_time(seconds): the new value of totalRunTime
show_time(seconds) ==
    IF seconds \div 3600 > 0 THEN totalRunTime + seconds
    ELSE totalRunTime + seconds

\* animation_thread.join() returns once the thread has ended; then
\* show_time(end_time - start_time) and return True.  show_time adds the
\* seconds to totalRunTime in both of its branches.
JoinAndReturn ==
    /\ pc = "join"
    /\ animation[file] = "exited"
    /\ \E seconds \in Durations :
        /\ totalRunTime' = show_time(seconds)
        /\ hist' = [hist EXCEPT ![file].elapsed = seconds]
    /\ ClearLocals
    /\ pc' = IF create_subfolders THEN "makedirs" ELSE "getsize"
    /\ UNCHANGED <<args, fs, loop, monitor, LOGFILE>>

\* hourglass_animation: one frame of the status line
MonitorTick(f) ==
    /\ f \in DOMAIN animation
    /\ animation[f] = "running"
    /\ f \notin stop_event
    /\ status_line /= f
    /\ status_line' = f
    /\ print("monitor")
    /\ UNCHANGED <<args, fs, pc, loop, locals, animation, stop_event,
                   totalRunTime, hist>>

\* hourglass_animation: the loop sees the event set, the line is erased and
\* the thread ends
MonitorExit(f) ==
    /\ f \in DOMAIN animation
    /\ animation[f] = "running"
    /\ f \in stop_event
    /\ animation' = [animation EXCEPT ![f] = "exited"]
    /\ status_line' = <<>>
    /\ print("monitor")
    /\ UNCHANGED <<args, fs, pc, loop, locals, stop_event, totalRunTime, hist>>

\* ------------------------------------------------------------------------
\* process_folder: after convert_to_mp4
\* ------------------------------------------------------------------------
\* convert_to_mp4 returned False: the else branch prints and the iteration
\* ends; the temporary file is not touched
ElseBranch ==
    /\ pc = "convert_false"
    /\ ClearLocals
    /\ EndIteration([hist[file] EXCEPT !.state = "SkippedOrFailed"])
    /\ UNCHANGED <<args, fs, monitor, totalRunTime, LOGFILE>>

\* os.makedirs(output_file_dir, exist_ok=True)
Makedirs ==
    /\ pc = "makedirs"
    /\ \E ok \in BOOLEAN : pc' = IF ok THEN "getsize" ELSE "except"
    /\ UNCHANGED <<args, fs, loop, locals, monitor, totalRunTime, LOGFILE, hist>>

\* The two os.path.getsize calls
Getsize ==
    /\ pc = "getsize"
    /\ \E ok \in BOOLEAN :
        pc' = IF ok /\ Exists(input_file_path) /\ Exists(temp_output_file)
              THEN "move" ELSE "except"
    /\ UNCHANGED <<args, fs, loop, locals, monitor, totalRunTime, LOGFILE, hist>>

\* shutil.move(temp_output_file, output_file_path): the temporary file
\* becomes the file at the destination path, replacing a file there
MoveOk ==
    /\ pc = "move"
    /\ Exists(temp_output_file)
    /\ fs' = Put(Delete(fs, temp_output_file), output_file_path, fs[temp_output_file])
    /\ hist' = [hist EXCEPT ![file].moved = TRUE]
    /\ pc' = "remove"
    /\ UNCHANGED <<args, loop, locals, monitor, totalRunTime, LOGFILE>>

\* The mutant of MoveRaises: a failed move is not noticed
MoveRaises_unnoticed ==
    /\ pc = "move"
    /\ pc' = "remove"
    /\ UNCHANGED <<args, fs, loop, locals, monitor, totalRunTime, LOGFILE, hist>>

MoveRaises ==
    /\ pc = "move"
    /\ pc' = "except"
    /\ UNCHANGED <<args, fs, loop, locals, monitor, totalRunTime, LOGFILE, hist>>

\* os.remove(input_file_path), the last statement of the iteration
RemoveOk ==
    /\ pc = "remove"
    /\ Exists(input_file_path)
    /\ fs' = Delete(fs, input_file_path)
    /\ EndIteration([hist[file] EXCEPT !.removed = TRUE, !.state = "Moved"])
    /\ UNCHANGED <<args, locals, monitor, totalRunTime, LOGFILE>>

RemoveRaises ==
    /\ pc = "remove"
    /\ hist' = [hist EXCEPT ![file].remove_failed = TRUE]
    /\ pc' = "except"
    /\ UNCHANGED <<args, fs, loop, locals, monitor, totalRunTime, LOGFILE>>

\* except Exception: print, try os.remove(temp_output_file) and pass when
\* that raises, continue
ExceptBranch ==
    /\ pc = "except"
    /\ \E ok \in BOOLEAN :
        fs' = IF ok /\ Exists(temp_output_file) THEN Delete(fs, temp_output_file)
              ELSE fs
    /\ EndIteration([hist[file] EXCEPT !.state = "SkippedOrFailed"])
    /\ UNCHANGED <<args, locals, monitor, totalRunTime, LOGFILE>>

Next ==
    \/ CheckFolders
    \/ PreflightDarwin
    \/ CheckProcess
    \/ Discover
    \/ PrepareOk
    \/ PrepareRaises
    \/ ProbeOk
    \/ ProbeRaises
    \/ SelectTracks
    \/ StartMonitor
    \/ EngineSucceeds
    \/ EngineRaises
    \/ JoinAndReturn
    \/ \E f \in Names : MonitorTick(f)
    \/ \E f \in Names : MonitorExit(f)
    \/ ElseBranch
    \/ Makedirs
    \/ Getsize
    \/ MoveOk
    \/ MoveRaises
    \/ RemoveOk
    \/ RemoveRaises
    \/ ExceptBranch

Spec == Init /\ [][Next]_vars

\* ------------------------------------------------------------------------
\* The selection and the command builder on every stream list of at most
\* MaxStreams streams: the states of convert_to_mp4 after its probes, for
\* the only file of a folder.
\* ------------------------------------------------------------------------
InitSelect ==
    /\ first_run \in {"encode", "remux"}
    /\ create_subfolders = FALSE
    /\ output_path = <<"out">>
    /\ files = <<Txt_E2_mkv>>
    /\ idx = 1
    /\ nextTemp = 1
    /\ temp_output_file = TempName(1)
    /\ fs = Put(Put(<<>>, Join(input_path, Txt_E2_mkv),
                    [kind |-> "source", of |-> Txt_E2_mkv]),
                TempName(1), [kind |-> "empty", of |-> <<>>])
    /\ hist = Put(<<>>, Txt_E2_mkv, NewHist(TempName(1)))
    /\ pc = "select"
    /\ media \in AllMedia
    /\ audio_indices = <<>>
    /\ video_codec = NoCodec
    /\ valid_subtitles = <<>>
    /\ cmd = <<>>
    /\ animation = <<>>
    /\ stop_event = {}
    /\ status_line = <<>>
    /\ totalRunTime = 0
    /\ LOGFILE = {"main"}

NextSelect == SelectTracks

SpecSelect == InitSelect /\ [][NextSelect]_vars

\* ========================================================================
\* Properties
\* ========================================================================
Attempted == DOMAIN hist

InputExists(f) == Exists(Join(input_path, f))

\* C1 (as stated): the input of a file is deleted if and only if the move
\* of its temporary output has succeeded: it is never deleted before the
\* move, and a file whose iteration has ended with the move done has had
\* its input deleted.
C1_DeletedIffMoved ==
    \A f \in Attempted :
        /\ hist[f].removed => hist[f].moved
        /\ Terminal(f) => (hist[f].moved => hist[f].removed)

\* C1 (amended): the input of a file is deleted only if the move of its
\* temporary output has already succeeded, in every reachable state; and
\* when the move has succeeded the input has been deleted by the end of the
\* iteration unless the os.remove of the input raised.
C1_DeletedOnlyAfterMove ==
    /\ \A f \in Range(files) :
        ~InputExists(f) => (f \in Attempted /\ hist[f].moved)
    /\ \A f \in Attempted :
        /\ hist[f].removed => hist[f].moved
        /\ (Terminal(f) /\ hist[f].moved /\ ~hist[f].remove_failed)
              => (hist[f].removed /\ ~InputExists(f))

C1_Witness ==
    \E f \in Attempted :
        Terminal(f) /\ hist[f].moved /\ hist[f].removed /\ ~InputExists(f)

\* C2: when the engine run of a file has failed, then once the iteration of
\* the file has ended its input still exists and no file exists at its
\* temporary output path.
C2_FailedRunKeepsInputDropsTemp ==
    \A f \in Attempted :
        (hist[f].engine = "failed" /\ Terminal(f))
            => (InputExists(f) /\ ~Exists(hist[f].temp))

\* C3: the temporary files of different files have different paths, and
\* the temporary file of a file whose iteration has ended is not on disk
\* any more (it has been moved or deleted).
C3_NoTempLeftBehind ==
    /\ \A f, g \in Attempted : f /= g => hist[f].temp /= hist[g].temp
    /\ \A f \in Attempted : Terminal(f) => ~Exists(hist[f].temp)

\* C4: no failure in the processing of one file ends the batch: when
\* process_folder has ended, every file of the list has reached a terminal
\* state.
C4_EveryFileReachesTerminal ==
    pc \in {"done", "crashed"} => \A f \in Range(files) : Terminal(f)

SelectionReasons == {"NoQualifyingAudio", "UnsupportedRemuxCodec"}

\* A step leaves the file at a path as it is
SamePath(path) ==
    /\ (path \in DOMAIN fs') = (path \in DOMAIN fs)
    /\ path \in DOMAIN fs => fs'[path] = fs[path]

\* C5: for a file that the selection has rejected the engine is never
\* started and its input stays in place; the step that rejects it and the
\* rest of its iteration leave the input and the destination path as they
\* are; and in encode mode no file is rejected for its AV1 video, it goes
\* on to the engine.
C5_RejectedFileUntouched ==
    /\ [](\A f \in Attempted :
            /\ hist[f].rejected \in SelectionReasons
                  => (hist[f].engine = "none" /\ InputExists(f) /\ ~hist[f].moved)
            /\ hist[f].rejected = "UnsupportedRemuxCodec" => first_run = "remux"
            /\ hist[f].engine /= "none" => hist[f].rejected = "")
    /\ [][(/\ pc' = "convert_false"
           /\ hist'[file].rejected \in SelectionReasons)
            => (SamePath(input_file_path) /\ SamePath(output_file_path))]_vars
    /\ [][(/\ pc = "convert_false"
           /\ hist[file].rejected \in SelectionReasons)
            => (SamePath(input_file_path) /\ SamePath(output_file_path))]_vars

C5_Witness ==
    \E f \in Attempted :
        /\ hist[f].rejected = "UnsupportedRemuxCodec"
        /\ Terminal(f)
        /\ InputExists(f)

\* The positions in the container of the audio streams tagged eng or und
\* or not tagged
EnglishAudio(m) ==
    {i \in 1..Len(m) : m[i].codec_type = "audio"
                        /\ m[i].language \in {"eng", "und", NoTag}}

Selected == pc \in {"start", "convert_false"}

\* C6: get_english_audio_indices returns the indices of the audio streams
\* whose language is eng or und (or missing), in probe order, each once,
\* and nothing else.
C6_AudioIndicesExact ==
    Selected =>
        LET Q == EnglishAudio(media)
        IN /\ Len(audio_indices) = Cardinality(Q)
           /\ \A k \in 1..Len(audio_indices) :
                \E i \in Q : /\ Cardinality({j \in Q : j < i}) = k - 1
                             /\ audio_indices[k] = Str(i - 1)
                             /\ media[i].index = i - 1

C6_Witness ==
    /\ Selected
    /\ Len(audio_indices) = 2
    /\ \E i \in 1..Len(media) : /\ media[i].codec_type = "audio"
                                /\ media[i].language = NoTag
    /\ \E i \in 1..Len(media) : /\ media[i].codec_type = "audio"
                                /\ media[i].language = "fre"

\* The positions of the subtitle streams of a supported codec tagged eng or
\* und or not tagged
ValidSubtitles(m) ==
    {i \in 1..Len(m) : /\ m[i].codec_type = "subtitle"
                       /\ m[i].codec_name \in {"subrip", "ass", "ssa", "mov_text"}
                       /\ m[i].language \in {"eng", "und", NoTag}}

\* The streams of the container that a command maps
MapTargets(c) == {c[i + 1] : i \in {j \in 1..(Len(c) - 1) : c[j] = <<"-map">>}}

MappedSubtitles(m, c) ==
    {i \in 1..Len(m) : /\ m[i].codec_type = "subtitle"
                       /\ (<<"0:">> \o Str(m[i].index)) \in MapTargets(c)}

\* C7: the command maps at most one subtitle stream: the first valid one in
\* probe order when there is one, none otherwise.
C7_FirstSubtitleOnly ==
    pc = "start" =>
        LET Q == ValidSubtitles(media)
        IN MappedSubtitles(media, cmd) =
              IF Q = {} THEN {} ELSE {CHOOSE i \in Q : \A j \in Q : i <= j}

C7_Witness ==
    /\ pc = "start"
    /\ Cardinality(ValidSubtitles(media)) >= 2
    /\ Cardinality(MappedSubtitles(media, cmd)) = 1

\* The first video stream of the container is AV1
DetectedAv1(m) ==
    \E i \in 1..Len(m) :
        /\ m[i].codec_type = "video"
        /\ m[i].codec_name \in {"av1", "AV1"}
        /\ \A j \in 1..(i - 1) : m[j].codec_type /= "video"

\* C8 (as stated): after the selection, the file is rejected for its codec
\* if and only if the mode is remux and its first video stream is AV1.
C8_RejectedIffAv1 ==
    Selected =>
        (hist[file].rejected = "UnsupportedRemuxCodec"
            <=> (first_run = "remux" /\ DetectedAv1(media)))

\* C8 (amended): after the selection, the file is rejected for its codec if
\* and only if the mode is remux, its first video stream is AV1 and at
\* least one audio stream is eng or und; an AV1 file without such an audio
\* stream is rejected for its audio.
C8_RejectedIffAv1WithAudio ==
    Selected =>
        /\ hist[file].rejected = "UnsupportedRemuxCodec"
            <=> (/\ first_run = "remux"
                 /\ DetectedAv1(media)
                 /\ EnglishAudio(media) /= {})
        /\ hist[file].rejected = "NoQualifyingAudio" <=> EnglishAudio(media) = {}

C8_Witness ==
    /\ pc = "convert_false"
    /\ hist[file].rejected = "UnsupportedRemuxCodec"
    /\ \E i \in 1..Len(media) : media[i].codec_name = "AV1"

HasPair(c, flag, value) ==
    \E i \in 1..(Len(c) - 1) : c[i] = <<flag>> /\ c[i + 1] = <<value>>

HasFlag(c, flag) == \E i \in 1..Len(c) : c[i] = <<flag>>

EncodeProfile(c) ==
    /\ HasPair(c, "-c:v", "libx265")
    /\ HasPair(c, "-preset", "fast")
    /\ HasPair(c, "-crf", "23")
    /\ HasPair(c, "-c:a", "aac")
    /\ HasPair(c, "-b:a", "192k")
    /\ HasPair(c, "-channel_layout", "5.1")

StreamCopy(c) == HasPair(c, "-c:v", "copy") /\ HasPair(c, "-c:a", "copy")

\* The flags of a command that ask for the encoding of a stream of one of
\* the given classes ("v", "a", "s")
CodecFlag(class) ==
    CASE class = "v" -> <<"-c:v">>
      [] class = "a" -> <<"-c:a">>
      [] class = "s" -> <<"-c:s">>

Reencodes(c, classes) ==
    \/ \E i \in 1..(Len(c) - 1) :
        /\ c[i] \in {CodecFlag(x) : x \in classes}
        /\ c[i + 1] /= <<"copy">>
    \/ /\ "v" \in classes
       /\ \E fl \in {"-preset", "-crf", "-x265-params"} : HasFlag(c, fl)
    \/ /\ "a" \in classes
       /\ \E fl \in {"-b:a", "-channel_layout"} : HasFlag(c, fl)

\* C9 (as stated): in encode mode the command holds the fixed encode
\* profile; in remux mode it holds the stream-copy flags and no flag that
\* asks for the encoding of any stream.
C9_RemuxNeverReencodes ==
    pc = "start" =>
        /\ first_run = "encode" => EncodeProfile(cmd)
        /\ first_run = "remux" =>
              (StreamCopy(cmd) /\ ~Reencodes(cmd, {"v", "a", "s"}))

\* C9 (amended): in encode mode the command holds the fixed encode profile;
\* in remux mode it holds the stream-copy flags and no flag that asks for
\* the encoding of a video or audio stream; in both modes a subtitle is
\* encoded to mov_text exactly when a valid subtitle is mapped.
C9_RemuxCopiesVideoAndAudio ==
    pc = "start" =>
        /\ first_run = "encode" => EncodeProfile(cmd)
        /\ first_run = "remux" =>
              (StreamCopy(cmd) /\ ~Reencodes(cmd, {"v", "a"}))
        /\ HasPair(cmd, "-c:s", "mov_text") <=> ValidSubtitles(media) /= {}
        /\ Reencodes(cmd, {"s"}) <=> ValidSubtitles(media) /= {}

C9_Witness ==
    /\ pc = "start"
    /\ first_run = "remux"
    /\ ValidSubtitles(media) /= {}
    /\ get_video_codec(media) = "hevc"

\* C10: the files are handled one after another in natural order: when a
\* file has been started, every file before it in natural order has reached
\* its terminal state.
C10_NaturalOrder ==
    \A b \in Attempted : \A a \in Range(files) \ {b} :
        ~Terminal(a) => ~NatLess(a, b)

C10_Witness ==
    /\ Terminal(Txt_E2_mkv)
    /\ Txt_E10_mkv \in Attempted
    /\ StrLess(Txt_E10_mkv, Txt_E2_mkv)

\* The file is the one of the running iteration
Current(f) == idx \in 1..Len(files) /\ files[idx] = f

\* convert_to_mp4 has returned for the file
Returned(f) ==
    \/ Terminal(f)
    \/ /\ Current(f)
       /\ pc \in {"convert_false", "makedirs", "getsize", "move", "remove", "except"}

\* C11: when convert_to_mp4 has returned for a file for which it started
\* the progress thread, the stop event of the file is set and the thread
\* has ended (it has been joined and has erased its line).
C11_MonitorStoppedAtReturn ==
    \A f \in DOMAIN animation :
        Returned(f) => (f \in stop_event /\ animation[f] = "exited")

\* The metadata key of the audio stream at an output position
AudioKeys ==
    <<(<<"-metadata:s:a:0">>), (<<"-metadata:s:a:1">>), (<<"-metadata:s:a:2">>),
      (<<"-metadata:s:a:3">>), (<<"-metadata:s:a:4">>)>>

\* C12: the command maps every selected audio index in order and tags the
\* k-th mapped audio stream with language eng through the metadata key of
\* its own output position, s:a:k for k = 0, 1, 2, ...
C12_AudioTaggedByPosition ==
    pc = "start" =>
        \A k \in 1..Len(audio_indices) :
            \E i \in 1..(Len(cmd) - 3) :
                /\ cmd[i] = <<"-map">>
                /\ cmd[i + 1] = <<"0:">> \o audio_indices[k]
                /\ cmd[i + 2] = AudioKeys[k]
                /\ cmd[i + 3] = <<"language=eng">>

\* The first video stream of the container is HEVC
DetectedHevc(m) ==
    \E i \in 1..Len(m) :
        /\ m[i].codec_type = "video"
        /\ m[i].codec_name \in {"hevc", "HEVC"}
        /\ \A j \in 1..(i - 1) : m[j].codec_type /= "video"

\* C13: in remux mode the command holds the hvc1 video tag if and only if
\* the source video codec is hevc, in encode mode always; in both modes the
\* command maps 0:v:0 exactly once and maps no video stream by its index.
C13_TagAndOneVideoMap ==
    pc = "start" =>
        /\ HasPair(cmd, "-tag:v", "hvc1")
              <=> (first_run = "encode" \/ DetectedHevc(media))
        /\ Cardinality({i \in 1..(Len(cmd) - 1) :
                            cmd[i] = <<"-map">> /\ cmd[i + 1] = <<"0:v:0">>}) = 1
        /\ \A i \in 1..Len(media) :
              media[i].codec_type = "video"
                  => (<<"0:">> \o Str(media[i].index)) \notin MapTargets(cmd)

C13_Witness ==
    /\ pc = "start"
    /\ first_run = "remux"
    /\ ~DetectedHevc(media)
    /\ \E i \in 1..Len(media) : media[i].codec_name = "hevc"
    /\ ~HasFlag(cmd, "-tag:v")

\* The progress threads that are alive
Alive == {f \in DOMAIN animation : animation[f] = "running"}

\* C14: at most one progress thread is alive, and a thread is alive only
\* while the engine of the file of the running iteration is in progress or
\* is being wound down; none started for an earlier file is still running.
C14_OneMonitorOfCurrentFile ==
    /\ Cardinality(Alive) <= 1
    /\ \A f \in Alive : Current(f) /\ pc \in {"engine", "join"}

\* C20: when the batch has ended after the last file, no progress thread
\* is still looping.
C20_NoThreadLeftAtEnd ==
    pc = "done" => Alive = {}

\* C15: the log file and the running total are written by the primary
\* thread only; a progress thread never appends to the log file.
C15_OnlyMainWritesLog ==
    LOGFILE \subseteq {"main"}

\* The step in which the file list is built and the loop is entered
DiscoveryStarts == idx = 0 /\ idx' = 1

\* C16: the discovery of the files starts only from a pre-flight in which a
\* process check has observed no engine process.
C16_DiscoveryAfterClearCheck ==
    [][DiscoveryStarts => pc = "discover"]_vars

RECURSIVE ElapsedSum(_)
\* The sum of the elapsed times measured for a set of attempted files
ElapsedSum(fset) ==
    IF fset = {} THEN 0
    ELSE LET f == CHOOSE x \in fset : TRUE
         IN hist[f].elapsed + ElapsedSum(fset \ {f})

\* convert_to_mp4 has measured the elapsed time of the engine run of a file
Measured(f) == hist[f].engine = "ok" /\ (Current(f) => pc /= "join")

Recognized(n) ==
    /\ \E k \in 1..Len(n) :
          SubSeq(n, k, Len(n)) \in
              {<<".", "m", "k", "v">>, <<".", "m", "p", "4">>, <<".", "a", "v", "i">>}
    /\ \A w \in words_to_ignore :
          \A k \in 1..Len(n) : \A l \in k..Len(n) : SubSeq(n, k, l) /= w

\* The entry was in the input directory when the run started: it is in the
\* file list, or its source is still in place
InitiallyListed(n) ==
    \/ n \in Range(files)
    \/ /\ InputExists(n)
       /\ fs[Join(input_path, n)] = [kind |-> "source", of |-> n]

\* C18: when the run has ended after the discovery, the files attempted are
\* exactly the entries of the input directory with a recognized extension
\* and no ignored word.
C18_AttemptedAreTheCandidates ==
    pc \in {"done", "crashed"} =>
        Attempted = {n \in Names : InitiallyListed(n) /\ Recognized(n)}

\* The same for the runs in which the loop has run to its end
C18_AttemptedWhenLoopEnds ==
    /\ Attempted \subseteq {n \in Names : InitiallyListed(n) /\ Recognized(n)}
    /\ pc = "done" =>
          Attempted = {n \in Names : InitiallyListed(n) /\ Recognized(n)}

\* The destination path of the output of a file
DestinationOf(f) ==
    LET name == SplitextRoot(f) \o <<".", "m", "p", "4">>
    IN IF create_subfolders THEN Join(Join(output_path, SplitextRoot(f)), name)
       ELSE Join(output_path, name)

\* C19: the converted output of every file in the Moved state is at its
\* destination path.
C19_MovedOutputStays ==
    \A f \in Attempted :
        hist[f].state = "Moved" =>
            /\ Exists(DestinationOf(f))
            /\ fs[DestinationOf(f)] = [kind |-> "converted", of |-> f]

====
